---- MODULE Spec2Model ----
(***************************************************************************)
(* Browser-connection provisioning and search of cli-music-player          *)
(* (src/search_provider/youtube_scraper.rs, src/search_provider/           *)
(* interface.rs).                                                          *)
(*                                                                         *)
(* A Rust String is a sequence of one-character strings.  Option<T> is a   *)
(* sequence of length 0 (None) or 1 (Some).  Result<T, E> and a panic are  *)
(* records [tag, val] with tag "Ok", "Err" or "Panic".  The characters     *)
(* are ASCII, so byte indices (str::find) and char indices (chars().skip)  *)
(* coincide.                                                               *)
(***************************************************************************)
EXTENDS Integers, Sequences, FiniteSets, TLC

VARIABLES
  pc,         \* where the current call stands
  build,      \* "debug" or "release": whether integer overflow panics
  url,        \* the string given to is_valid_url / ProxyConfig::new
  valid,      \* what is_valid_url returned
  proxy,      \* the Result holding a ProxyConfig
  comps,      \* the Result of into_components
  endpoint,   \* the ProxyConfigComponents given to ProxyConfig::from
  cmds,       \* the docker commands DockerConfig::browser has run
  container_id, \* stdout of `docker run`, lossily decoded
  log,        \* stdout of `docker logs`, as the items of lines()
  ws_url,     \* the Result of debug_ws_from_log
  port_out,   \* stdout of `docker port`, as the items of lines()
  ports,      \* the Vec<u16> of get_ports
  conf_comps, \* the components used to rebuild the endpoint
  attempts,   \* the URLs Browser::connect was called with, in order
  found,      \* the Option<Browser> find_map holds
  failures,   \* the Vec<String> of per-port errors
  result,     \* what DockerConfig::browser returned
  payload,    \* the serde_json::Value given to BrowserType::auto
  auto_result, \* what BrowserType::auto returned
  backends,   \* YoutubeScraper.backends
  works,      \* the browser types whose connection succeeds
  keywords,   \* SearchQuery.keywords
  conn_attempts, \* what search tried to get a browser from, in order
  session,    \* the Result holding the Browser of get_links
  nav_url,    \* the URL given to navigate_to
  elems,      \* the elements wait_for_elements returned
  search_result \* what search returned

codec_vars == <<url, valid, proxy, comps, endpoint>>
docker_vars ==
  <<cmds, container_id, log, ws_url, port_out, ports, conf_comps, found,
    attempts, failures, result>>
search_vars ==
  <<backends, works, keywords, conn_attempts, session, nav_url, elems,
    search_result>>
vars == <<pc, build, codec_vars, docker_vars, payload, auto_result, search_vars>>

(***************************************************************************)
(* Values                                                                  *)
(***************************************************************************)
None == <<>>
Some(v) == <<v>>
Ok(v) == [tag |-> "Ok", val |-> v]
Err(v) == [tag |-> "Err", val |-> v]
Panic(v) == [tag |-> "Panic", val |-> v]
Unset == [tag |-> "Unset", val |-> "unset"]

U16_MAX == 65535

WS_PREFIX == <<"w", "s", ":", "/", "/">>
DEVTOOLS_PATH ==
  <<"/", "d", "e", "v", "t", "o", "o", "l", "s", "/",
    "b", "r", "o", "w", "s", "e", "r", "/">>
LOCALHOST == <<"l", "o", "c", "a", "l", "h", "o", "s", "t">>
DIGITS == <<"0", "1", "2", "3", "4", "5", "6", "7", "8", "9">>

IsDigit(c) == \E d \in 1..Len(DIGITS) : DIGITS[d] = c
DigitVal(c) == (CHOOSE d \in 1..Len(DIGITS) : DIGITS[d] = c) - 1

(***************************************************************************)
(* str / iterator primitives the code uses                                 *)
(***************************************************************************)
SetMin(S) == CHOOSE m \in S : \A n \in S : m <= n

\* the literal lit occupies s[i .. i+Len(lit)-1]
StartsWithAt(s, i, lit) ==
  /\ i >= 1
  /\ i + Len(lit) - 1 <= Len(s)
  /\ SubSeq(s, i, i + Len(lit) - 1) = lit

\* str::find: the 0-based index of the first occurrence, or None
find(s, lit) ==
  LET hits == {i \in 1..Len(s) : StartsWithAt(s, i, lit)}
  IN  IF hits = {} THEN None ELSE Some(SetMin(hits) - 1)

\* str::contains
contains(s, lit) == find(s, lit) # None

\* Iterator::skip(n) / Iterator::take(n) followed by collect
skip(s, n) == SubSeq(s, n + 1, Len(s))
take(s, n) == SubSeq(s, 1, IF n < Len(s) THEN n ELSE Len(s))

\* format!("{}", p) of an unsigned integer
RECURSIVE to_decimal(_)
to_decimal(n) ==
  IF n < 10 THEN <<DIGITS[n + 1]>>
  ELSE to_decimal(n \div 10) \o <<DIGITS[(n % 10) + 1]>>

RECURSIVE digits_value(_)
digits_value(s) ==
  IF s = <<>> THEN 0
  ELSE 10 * digits_value(SubSeq(s, 1, Len(s) - 1)) + DigitVal(s[Len(s)])

\* str::parse::<u16>(): an optional '+', then one or more ASCII digits,
\* the value at most u16::MAX
parse_u16(s) ==
  LET body == IF s # <<>> /\ s[1] = "+" THEN skip(s, 1) ELSE s
  IN  IF body = <<>> THEN Err("empty")
      ELSE IF \E i \in 1..Len(body) : ~IsDigit(body[i]) THEN Err("invalid digit")
      ELSE IF digits_value(body) > U16_MAX THEN Err("overflow")
      ELSE Ok(digits_value(body))

(***************************************************************************)
(* ProxyConfig: the endpoint codec                                         *)
(***************************************************************************)
\* [^:/]* : the first index at or after i that holds ':' or '/', or Len+1
host_end(s, i) ==
  SetMin({j \in i..(Len(s) + 1) : j = Len(s) + 1 \/ s[j] \in {":", "/"}})

\* \d* : the first index at or after i that holds no digit, or Len+1
digits_end(s, i) ==
  SetMin({j \in i..(Len(s) + 1) : j = Len(s) + 1 \/ ~IsDigit(s[j])})

\* URL_REGEX matched with its first character at index i:
\* ws://(?P<url>[^:/]*)(?P<port>:\d*)?/devtools/browser/(?P<token>.+$)
regex_match_at(s, i) ==
  /\ StartsWithAt(s, i, WS_PREFIX)
  /\ LET j == host_end(s, i + Len(WS_PREFIX))
         k == IF j <= Len(s) /\ s[j] = ":" THEN digits_end(s, j + 1) ELSE j
         t == k + Len(DEVTOOLS_PATH)
     IN  /\ StartsWithAt(s, k, DEVTOOLS_PATH)
         /\ t <= Len(s)
         /\ \A m \in t..Len(s) : s[m] # "\n"

\* Regex::is_match: a match may start at any index of the text
is_valid_url(s) == \E i \in 1..Len(s) : regex_match_at(s, i)

ProxyConfig_new(s) ==
  IF is_valid_url(s) THEN Ok(s) ELSE Err("url does not conform to format")

ProxyConfigComponents_new(ip, port, token) ==
  [ip |-> ip, port |-> port, token |-> token]

\* Self::new(format!(...)).unwrap()
from_components(ip, port, token) ==
  LET port_str == IF port = None THEN <<>> ELSE <<":">> \o to_decimal(port[1])
      s == WS_PREFIX \o ip \o port_str \o DEVTOOLS_PATH \o token
  IN  IF ProxyConfig_new(s).tag = "Ok" THEN Ok(s)
      ELSE Panic("unwrap on Err")

\* impl From<AsRef<ProxyConfigComponents>> for ProxyConfig
ProxyConfig_from(c) == from_components(c.ip, c.port, c.token)

\* port_end - start on usize: b is "debug" (overflow checks on: panic) or
\* "release" (wrapping: the count exceeds every string length)
into_components(s, b) ==
  LET removed_protocol == skip(s, Len(WS_PREFIX))
      port_start == find(removed_protocol, <<":">>)
      slash == find(removed_protocol, <<"/">>)
  IN  IF slash = None THEN Err("No path, hence token, provided.")
      ELSE
        LET port_end == slash[1]
            addr_end == IF port_start = None THEN port_end ELSE port_start[1]
            start == IF port_start = None THEN 0 ELSE port_start[1] + 1
            underflow == port_start # None /\ port_end < start
            count == IF underflow THEN Len(removed_protocol) ELSE port_end - start
            port_str == IF port_start = None THEN None
                        ELSE Some(take(skip(removed_protocol, start), count))
            parsed == IF port_str = None THEN Ok(None) ELSE parse_u16(port_str[1])
        IN  IF underflow /\ b = "debug"
              THEN Panic("attempt to subtract with overflow")
            ELSE IF parsed.tag # "Ok"
              THEN Panic("unwrap on Err")
            ELSE Ok(ProxyConfigComponents_new(
                      take(removed_protocol, addr_end),
                      IF port_str = None THEN None ELSE Some(parsed.val),
                      skip(skip(removed_protocol, port_end), Len(DEVTOOLS_PATH))))

\* ProxyConfig::new(url).and_then(|proxy| proxy.into_components())
to_component(s, b) ==
  IF ProxyConfig_new(s).tag = "Ok" THEN into_components(s, b) ELSE ProxyConfig_new(s)

(***************************************************************************)
(* Inputs of the codec                                                     *)
(***************************************************************************)
HTTP_PREFIX == <<"h", "t", "t", "p", ":", "/", "/">>

Leading == {<<>>, <<"x">>}
Protocols == {WS_PREFIX, HTTP_PREFIX}
Hosts == {<<>>, <<"h">>, <<"a", ".", "b">>}
PortParts ==
  {<<>>, <<":">>, <<":", "8", "0">>, <<":", "0", "8", "0">>,
   <<":", "6", "5", "5", "3", "5">>, <<":", "6", "5", "5", "3", "6">>}
Paths == {DEVTOOLS_PATH, <<>>}
Tokens == {<<>>, <<"t">>, <<"a", ":", "7">>, <<"a", "/", "b">>}

Urls ==
  {l \o p \o h \o n \o d \o t :
     l \in Leading, p \in Protocols, h \in Hosts, n \in PortParts,
     d \in Paths, t \in Tokens}

Endpoints ==
  {ProxyConfigComponents_new(h, n, t) :
     h \in {<<"h">>, <<"a", ".", "b">>},
     n \in {None, Some(0), Some(80), Some(U16_MAX)},
     t \in {<<"t">>, <<"a", ":", "b">>, <<"a", ":", "7">>, <<"a", "/", "b">>}}

(***************************************************************************)
(* The state machine: one call of the library at a time                    *)
(***************************************************************************)
Init ==
  /\ pc = "idle"
  /\ build \in {"debug", "release"}
  /\ url = <<>>
  /\ valid = FALSE
  /\ proxy = Unset
  /\ comps = Unset
  /\ endpoint = Unset
  /\ cmds = <<>>
  /\ container_id = <<>>
  /\ found = None
  /\ log = <<>>
  /\ ws_url = Unset
  /\ port_out = <<>>
  /\ ports = <<>>
  /\ conf_comps = Unset
  /\ attempts = <<>>
  /\ failures = <<>>
  /\ result = Unset
  /\ payload = Unset
  /\ auto_result = Unset
  /\ backends = <<>>
  /\ works = {}
  /\ keywords = <<>>
  /\ conn_attempts = <<>>
  /\ session = Unset
  /\ nav_url = None
  /\ elems = <<>>
  /\ search_result = Unset

\* ProxyConfig::is_valid_url(u)
IsValidUrl ==
  /\ pc = "idle"
  /\ \E u \in Urls :
       /\ url' = u
       /\ valid' = is_valid_url(u)
  /\ pc' = "validated"
  /\ UNCHANGED <<build, proxy, comps, endpoint, docker_vars, payload, auto_result,
                 search_vars>>

\* ProxyConfig::new(u)
New ==
  /\ pc = "idle"
  /\ \E u \in Urls :
       /\ url' = u
       /\ proxy' = ProxyConfig_new(u)
  /\ pc' = "constructed"
  /\ UNCHANGED <<build, valid, comps, endpoint, docker_vars, payload, auto_result,
                 search_vars>>

\* .and_then(|proxy| proxy.into_components()) on the result of new
IntoComponents ==
  /\ pc = "constructed"
  /\ comps' = IF proxy.tag = "Ok" THEN into_components(proxy.val, build) ELSE proxy
  /\ pc' = IF comps'.tag = "Panic" THEN "panicked" ELSE "parsed"
  /\ UNCHANGED <<build, url, valid, proxy, endpoint, docker_vars, payload, auto_result,
                 search_vars>>

\* ProxyConfig::from(&components) on the components just parsed
FormatParsed ==
  /\ pc = "parsed"
  /\ comps.tag = "Ok"
  /\ proxy' = ProxyConfig_from(comps.val)
  /\ pc' = IF proxy'.tag = "Panic" THEN "panicked" ELSE "formatted"
  /\ UNCHANGED <<build, url, valid, comps, endpoint, docker_vars, payload, auto_result,
                 search_vars>>

\* ProxyConfig::from(e) for constructed components e
From ==
  /\ pc = "idle"
  /\ \E e \in Endpoints :
       /\ endpoint' = Ok(e)
       /\ proxy' = ProxyConfig_from(e)
  /\ pc' = IF proxy'.tag = "Panic" THEN "panicked" ELSE "built"
  /\ UNCHANGED <<build, url, valid, comps, docker_vars, payload, auto_result,
                 search_vars>>

\* into_components on the ProxyConfig built from components
ParseBuilt ==
  /\ pc = "built"
  /\ comps' = into_components(proxy.val, build)
  /\ pc' = IF comps'.tag = "Panic" THEN "panicked" ELSE "reparsed"
  /\ UNCHANGED <<build, url, valid, proxy, endpoint, docker_vars, payload, auto_result,
                 search_vars>>

(***************************************************************************)
(* DockerConfig: the container provisioner                                 *)
(***************************************************************************)
\* the Err value of DockerConfig::browser: the message and, for port
\* exhaustion, the {failures:?} it is formatted with
BrowserErr(msg, fs) == Err([msg |-> msg, failures |-> fs])

\* DockerConfig::try_get_debug_ws_url
try_get_debug_ws_url(line) ==
  LET start_idx == find(line, WS_PREFIX)
  IN  IF start_idx = None THEN None
      ELSE IF contains(line, DEVTOOLS_PATH) THEN Some(skip(line, start_idx[1]))
      ELSE None

\* DockerConfig::debug_ws_from_log: find_map over the items of lines(), each
\* Ok(line) or Err(e) (a line that is not UTF-8)
RECURSIVE debug_ws_from_log(_)
debug_ws_from_log(docker_logs) ==
  IF docker_logs = <<>> THEN Err("docker logs has no line matching")
  ELSE IF Head(docker_logs).tag = "Err" THEN Err(Head(docker_logs).val)
  ELSE LET hit == try_get_debug_ws_url(Head(docker_logs).val)
       IN  IF hit # None THEN Ok(hit[1])
           ELSE debug_ws_from_log(Tail(docker_logs))

\* DockerConfig::to_proxy_config: ProxyConfig::new(ws_url).unwrap()
to_proxy_config(s) ==
  IF ProxyConfig_new(s).tag = "Ok" THEN Ok(s) ELSE Panic("unwrap on Err")

\* the closure of get_ports on one line: the u16 after the first ':'
port_of_line(line) ==
  LET idx == find(line, <<":">>)
  IN  IF idx = None THEN None
      ELSE LET r == parse_u16(skip(line, idx[1] + 1))
           IN  IF r.tag = "Ok" THEN Some(r.val) ELSE None

RECURSIVE filter_map_ports(_)
filter_map_ports(lines) ==
  IF lines = <<>> THEN <<>>
  ELSE port_of_line(Head(lines).val) \o filter_map_ports(Tail(lines))

\* DockerConfig::get_ports on the stdout of a `docker port` that ran:
\* res_port.unwrap() panics on a line that is not UTF-8
get_ports(lines) ==
  IF \E i \in 1..Len(lines) : lines[i].tag = "Err" THEN Panic("unwrap on Err")
  ELSE Ok(filter_map_ports(lines))

\* a loop that does not stop at the first Some, as filter_map(..).last()
find_map_running_past_hit(opt, pos, n) == pos < n

\* Iterator::find_map: the closure runs on the next item while nothing was
\* found and items are left
find_map_running(opt, pos, n) == opt = None /\ pos < n

\* a slot that holds only the last error
push_failure_last_only(fs, err) == <<err>>

\* .map_err(|err| failures.push(err))
push_failure(fs, err) == Append(fs, err)

\* .ok_or_else(|| format!("None of the port worked:\n{failures:?}"))
ok_or_else(opt, fs) ==
  IF opt # None THEN Ok(opt[1])
  ELSE BrowserErr("None of the port worked", fs)

\* the error string of a Browser::connect(u) that failed
connect_error(u) == [error |-> "connect failed", url |-> u]

(***************************************************************************)
(* Inputs of the provisioner                                               *)
(***************************************************************************)
MaxLogLines == 2
MaxPortLines == 2

NotUtf8 == Err("stream did not contain valid UTF-8")

CONTAINER_ID == <<"c", "0", "f", "f", "e", "e">>
\* stdout of `docker run -d`: the identifier and a line terminator
RunStdouts == {CONTAINER_ID \o <<"\n">>}

PortMappings == {None, Some("8080:9222")}
ADDITIONAL_FLAGS == <<"--rm", "-d", "--cap-add=SYS_ADMIN">>
IMAGE_PATH == "docker.io/justinribeiro/chrome-headless:latest"

LogLines ==
  {Ok(<<"u", "p">>),
   Ok(<<"o", "n", " ", "w", "s", ":", "/", "/", "0", ".", "0", ".", "0", ".",
       "0", ":", "9", "2", "2", "2", "/", "d", "e", "v", "t", "o", "o", "l",
       "s", "/", "b", "r", "o", "w", "s", "e", "r", "/", "t", "k">>),
   Ok(<<"w", "s", ":", "/", "/", "h", "/", "d", "e", "v", "t", "o", "o", "l",
       "s", "/", "b", "r", "o", "w", "s", "e", "r", "/">>),
   Ok(<<"/", "d", "e", "v", "t", "o", "o", "l", "s", "/", "b", "r", "o", "w",
       "s", "e", "r", "/", " ", "w", "s", ":", "/", "/", "h">>),
   Ok(<<"w", "s", ":", "/", "/", "a", ":", "1", "2", "/", "w", "s", ":",
       "/", "/", "h", "/", "d", "e", "v", "t", "o", "o", "l", "s", "/",
       "b", "r", "o", "w", "s", "e", "r", "/", "t", "k">>),
   NotUtf8}

PortLines ==
  {Ok(<<"9", "2", "2", "2", "/", "t", "c", "p", " ", "-", ">", " ", "0", ".",
      "0", ".", "0", ".", "0", ":", "7", "1">>),
   Ok(<<"9", "2", "2", "3", "/", "t", "c", "p", " ", "-", ">", " ", "0", ".",
       "0", ".", "0", ".", "0", ":", "7", "2">>),
   Ok(<<"9", "2", "2", "2", "/", "t", "c", "p", " ", "-", ">", " ", "[", ":",
       ":", "]", ":", "7", "1">>),
   NotUtf8}

SeqsUpTo(S, n) == UNION {[1..m -> S] : m \in 0..n}

Logs == SeqsUpTo(LogLines, MaxLogLines)
PortOutputs == SeqsUpTo(PortLines, MaxPortLines)

(***************************************************************************)
(* DockerConfig::browser                                                   *)
(***************************************************************************)
\* docker run (-p <map> | -P) <flags> <image>, .output().expect(...)
DockerRun ==
  /\ pc = "idle"
  /\ \E port_mapping \in PortMappings :
       cmds' = <<[cmd |-> "run",
                  arg |-> (IF port_mapping = None THEN <<"-P">>
                           ELSE <<"-p", port_mapping[1]>>)
                          \o ADDITIONAL_FLAGS \o <<IMAGE_PATH>>]>>
  /\ \/ /\ result' = Panic("docker run command failed")
        /\ pc' = "panicked"
        /\ UNCHANGED container_id
     \/ /\ \E out \in RunStdouts : container_id' = out
        /\ pc' = "run_done"
        /\ UNCHANGED result
  /\ UNCHANGED <<build, codec_vars, log, ws_url, port_out, ports, conf_comps,
                 found, attempts, failures,
                 payload, auto_result, search_vars>>

\* docker logs <container_id>, .output().expect(...), debug_ws_from_log
DockerLogs ==
  /\ pc = "run_done"
  /\ cmds' = Append(cmds, [cmd |-> "logs", arg |-> container_id])
  /\ \/ /\ result' = Panic("docker logs should yield OK")
        /\ pc' = "panicked"
        /\ UNCHANGED <<log, ws_url>>
     \/ /\ \E l \in Logs :
             /\ log' = l
             /\ ws_url' = debug_ws_from_log(l)
        /\ pc' = "logs_done"
        /\ UNCHANGED result
  /\ UNCHANGED <<build, codec_vars, container_id, port_out, ports, conf_comps,
                 found, attempts, failures,
                 payload, auto_result, search_vars>>

\* Self::get_ports(container_id).map_err(|err| err.to_string())?
GetPorts ==
  /\ pc = "logs_done"
  /\ cmds' = Append(cmds, [cmd |-> "port", arg |-> container_id])
  /\ \/ /\ result' = BrowserErr("docker port could not be started", <<>>)
        /\ pc' = "done"
        /\ UNCHANGED <<port_out, ports>>
     \/ \E out \in PortOutputs :
          /\ port_out' = out
          /\ IF get_ports(out).tag = "Panic"
               THEN /\ result' = get_ports(out)
                    /\ pc' = "panicked"
                    /\ UNCHANGED ports
               ELSE /\ ports' = get_ports(out).val
                    /\ pc' = "ports_done"
                    /\ UNCHANGED result
  /\ UNCHANGED <<build, codec_vars, container_id, log, ws_url, conf_comps,
                 found, attempts, failures,
                 payload, auto_result, search_vars>>

\* ws_url.map_err(..).and_then(|url| { to_proxy_config(url).into_components()?;
\* conf_comps.ip = "localhost"; let mut failures = Vec::new(); ...
ToProxyConfig ==
  /\ pc = "ports_done"
  /\ LET conf == IF ws_url.tag = "Ok" THEN to_proxy_config(ws_url.val) ELSE ws_url
         parsed == IF conf.tag = "Ok" THEN into_components(conf.val, build) ELSE conf
     IN  IF ws_url.tag = "Err"
           THEN /\ result' = BrowserErr(ws_url.val, <<>>)
                /\ pc' = "done"
                /\ UNCHANGED conf_comps
         ELSE IF parsed.tag = "Panic"
           THEN /\ result' = parsed
                /\ pc' = "panicked"
                /\ UNCHANGED conf_comps
         ELSE IF parsed.tag = "Err"
           THEN /\ result' = BrowserErr(parsed.val, <<>>)
                /\ pc' = "done"
                /\ UNCHANGED conf_comps
         ELSE /\ conf_comps' = Ok([parsed.val EXCEPT !.ip = LOCALHOST])
              /\ pc' = "probing"
              /\ UNCHANGED result
  /\ UNCHANGED <<build, codec_vars, cmds, container_id, log, ws_url, port_out,
                 ports, found, attempts, failures,
                 payload, auto_result, search_vars>>

\* one run of the find_map closure: conf_comps.port = Some(*port);
\* ProxyConfig::from(&conf_comps).browser(), which succeeds or fails
Probe ==
  /\ pc = "probing"
  /\ find_map_running(found, Len(attempts), Len(ports))
  /\ LET port == ports[Len(attempts) + 1]
         next_comps == [conf_comps.val EXCEPT !.port = Some(port)]
         conf == ProxyConfig_from(next_comps)
     IN  /\ conf_comps' = Ok(next_comps)
         /\ IF conf.tag = "Panic"
              THEN /\ result' = conf
                   /\ pc' = "panicked"
                   /\ UNCHANGED <<found, attempts, failures>>
              ELSE /\ \E connected \in BOOLEAN :
                        /\ attempts' = Append(attempts,
                                              [url |-> conf.val, ok |-> connected])
                        /\ IF connected
                             THEN /\ found' = Some([browser |-> conf.val])
                                  /\ UNCHANGED failures
                             ELSE /\ failures' =
                                       push_failure(failures, connect_error(conf.val))
                                  /\ UNCHANGED found
                   /\ UNCHANGED <<pc, result>>
  /\ UNCHANGED <<build, codec_vars, cmds, container_id, log, ws_url, port_out,
                 ports,
                 payload, auto_result, search_vars>>

\* find_map returned: .ok_or_else(..) is what browser returns
ProbeEnd ==
  /\ pc = "probing"
  /\ ~find_map_running(found, Len(attempts), Len(ports))
  /\ result' = ok_or_else(found, failures)
  /\ pc' = "done"
  /\ UNCHANGED <<build, codec_vars, cmds, container_id, log, ws_url, port_out,
                 ports, conf_comps, found, attempts, failures,
                 payload, auto_result, search_vars>>

(***************************************************************************)
(* BrowserType::auto                                                       *)
(***************************************************************************)
\* a serde_json::Value, as far as deserialization looks at it: its JSON
\* kind, the single key of an object, the debug_ws_url member of the value
\* under that key (None if absent) and whether the members have the types
\* the variant's struct declares
JsonValue(kind, key, ws, typed) ==
  [kind |-> kind, key |-> key, debug_ws_url |-> ws, typed |-> typed]

\* serde_json::from_value::<BrowserType>: the externally tagged enum;
\* ProxyConfig needs its field, DockerConfig and ChromeConfig are
\* #[serde(default)]
from_value(v) ==
  IF v.kind # "object" THEN Err("invalid type")
  ELSE IF v.key \notin {"Proxy", "Docker", "Local"} THEN Err("unknown variant")
  ELSE IF ~v.typed THEN Err("invalid type")
  ELSE IF v.key = "Proxy" /\ v.debug_ws_url = None THEN Err("missing field")
  ELSE Ok([type |-> v.key,
           debug_ws_url |-> IF v.key = "Proxy" THEN v.debug_ws_url[1] ELSE <<>>])

\* BrowserType::try_fit: todo!(..)
try_fit(v) == Panic("not yet implemented")

\* BrowserType::auto: from_value(..).or_else(|_err| Self::try_fit(value)).ok()
auto(v) ==
  LET fitted == IF from_value(v).tag = "Ok" THEN from_value(v) ELSE try_fit(v)
  IN  IF fitted.tag = "Panic" THEN fitted
      ELSE IF fitted.tag = "Ok" THEN Ok(Some(fitted.val))
      ELSE Ok(None)

Payloads ==
  {JsonValue("null", "", None, TRUE), JsonValue("string", "", None, TRUE)}
  \cup {JsonValue("object", k, w, t) :
          k \in {"Proxy", "Docker", "Local", "Chrome"},
          w \in {None, Some(WS_PREFIX \o <<"h">> \o DEVTOOLS_PATH \o <<"t">>),
                 Some(<<"h">>)},
          t \in BOOLEAN}

\* BrowserType::auto(value)
Auto ==
  /\ pc = "idle"
  /\ \E v \in Payloads :
       /\ payload' = v
       /\ auto_result' = auto(v)
  /\ pc' = IF auto_result'.tag = "Panic" THEN "panicked" ELSE "auto_done"
  /\ UNCHANGED <<build, codec_vars, docker_vars, search_vars>>

(***************************************************************************)
(* YoutubeScraper: the search provider                                     *)
(***************************************************************************)
PROXY_URL ==
  <<"w", "s", ":", "/", "/", "l", "o", "c", "a", "l", "h", "o", "s", "t",
    ":", "9", "2", "2", "2", "/", "d", "e", "v", "t", "o", "o", "l", "s",
    "/", "b", "r", "o", "w", "s", "e", "r", "/", "0", "1", "9", "f", "2",
    "f", "e", "d", "-", "a", "d", "5", "5", "-", "4", "c", "3", "4", "-",
    "9", "f", "f", "1", "-", "9", "a", "6", "1", "d", "0", "1", "0", "1",
    "1", "a", "0">>
RESULTS_URL ==
  <<"h", "t", "t", "p", "s", ":", "/", "/", "w", "w", "w", ".", "y", "o",
    "u", "t", "u", "b", "e", ".", "c", "o", "m", "/", "r", "e", "s", "u",
    "l", "t", "s", "?", "s", "e", "a", "r", "c", "h", "_", "q", "u", "e",
    "r", "y", "=">>
YOUTUBE ==
  <<"h", "t", "t", "p", "s", ":", "/", "/", "w", "w", "w", ".", "y", "o",
    "u", "t", "u", "b", "e", ".", "c", "o", "m">>

\* a BrowserType, and what a browser session was obtained from
Proxy(u) == [type |-> "Proxy", debug_ws_url |-> u]
Docker == [type |-> "Docker", debug_ws_url |-> <<>>]
Local == [type |-> "Local", debug_ws_url |-> <<>>]

\* BrowserType::proxy: ProxyConfig::new(proxy_url).expect(..)
BrowserType_proxy(s) ==
  IF ProxyConfig_new(s).tag = "Ok" THEN Ok(Proxy(s))
  ELSE Panic("Cannot construct ProxyConfig")

\* BrowserType::proxy(proxy_url); proxy is the ProxyConfig of the result
BrowserProxy ==
  /\ pc = "idle"
  /\ \E u \in Urls :
       /\ url' = u
       /\ proxy' = IF BrowserType_proxy(u).tag = "Ok"
                     THEN Ok(BrowserType_proxy(u).val.debug_ws_url)
                     ELSE BrowserType_proxy(u)
  /\ pc' = "proxy_built"
  /\ UNCHANGED <<build, valid, comps, endpoint, docker_vars, payload, auto_result,
                 search_vars>>

\* [String]::concat(): the separator is left out
RECURSIVE join_without_separator(_, _)
join_without_separator(ks, sep) ==
  IF ks = <<>> THEN <<>> ELSE Head(ks) \o join_without_separator(Tail(ks), sep)

\* [String]::join(sep)
RECURSIVE join(_, _)
join(ks, sep) ==
  IF ks = <<>> THEN <<>>
  ELSE IF Len(ks) = 1 THEN ks[1]
  ELSE ks[1] \o sep \o join(Tail(ks), sep)

\* format!("https://www.youtube.com/results?search_query={}", ..join("+"))
results_url(ks) == RESULTS_URL \o join(ks, <<"+">>)

\* the filter_map closure of get_links on one element: get_attributes()
\* .ok().and_then(|e| e).and_then(|mut attrs| attrs.remove("href")), then
\* the origin is put in front
link_of(e) ==
  IF e.attributes # "Some" \/ e.href = None THEN None
  ELSE Some(YOUTUBE \o e.href[1])

RECURSIVE filter_map_links(_)
filter_map_links(es) ==
  IF es = <<>> THEN <<>>
  ELSE link_of(Head(es)) \o filter_map_links(Tail(es))

(***************************************************************************)
(* Inputs of the search provider                                           *)
(***************************************************************************)
MaxBackends == 2
MaxKeywords == 2

BrowserTypes == {Proxy(PROXY_URL), Docker, Local}
BackendLists == SeqsUpTo(BrowserTypes, MaxBackends)

Keywords == {<<"a">>, <<"b", "c">>}
KeywordLists == SeqsUpTo(Keywords, MaxKeywords)

\* an a#video-title element: whether get_attributes fails ("Err"), gives
\* no attributes ("None") or gives some, and the href among them
Element(attributes, href) == [attributes |-> attributes, href |-> href]
Watch1 == Element("Some", Some(<<"/", "w", "a", "t", "c", "h", "?", "v", "=",
  "1">>))
Watch2 == Element("Some", Some(<<"/", "w", "a", "t", "c", "h", "?", "v", "=",
  "2">>))
NoHref == Element("Some", None)
NoAttributes == Element("None", None)
Detached == Element("Err", None)

Pages ==
  {<<>>, <<Watch1>>, <<NoHref>>, <<Watch1, Watch2>>, <<Watch2, Watch1>>,
   <<Watch2, NoHref, Watch1>>, <<Detached, Watch1, NoAttributes>>,
   <<NoAttributes, Detached>>}

(***************************************************************************)
(* YoutubeScraper::new and ProvideSearch::search                           *)
(***************************************************************************)
\* YoutubeScraper::new(backends); YoutubeScraper::default() is <<Local>>
NewScraper ==
  /\ pc = "idle"
  /\ \E b \in BackendLists : backends' = b
  /\ pc' = "scraper"
  /\ UNCHANGED <<build, codec_vars, docker_vars, payload, auto_result, works,
                 keywords, conn_attempts, session, nav_url, elems,
                 search_result>>

\* Result::or: the alternative is evaluated whatever the receiver is
or_else_runs_eagerly(res) == TRUE

\* Result::or_else: the closure runs exactly when the receiver is Err
or_else_runs(res) == res.tag = "Err"

\* search(query) -> get_links -> attempt_proxy: Browser::connect(PROXY_URL);
\* works is the set of browser types whose connection succeeds at this time
AttemptProxy ==
  /\ pc = "scraper"
  /\ \E ks \in KeywordLists : keywords' = ks
  /\ \E w \in SUBSET BrowserTypes : works' = w
  /\ conn_attempts' = <<Proxy(PROXY_URL)>>
  /\ session' = IF Proxy(PROXY_URL) \in works'
                  THEN Ok(Proxy(PROXY_URL))
                  ELSE Err("connect failed")
  /\ pc' = IF or_else_runs(session') THEN "proxy_failed" ELSE "connected"
  /\ UNCHANGED <<build, codec_vars, docker_vars, payload, auto_result,
                 backends, nav_url, elems, search_result>>

\* .or_else(|_err| Browser::default()), and the `?` of get_links
AttemptDefault ==
  /\ pc = "proxy_failed"
  /\ conn_attempts' = Append(conn_attempts, Local)
  /\ IF Local \in works
       THEN /\ session' = Ok(Local)
            /\ pc' = "connected"
            /\ UNCHANGED search_result
       ELSE /\ session' = Err("launch failed")
            /\ search_result' = Err("launch failed")
            /\ pc' = "done"
  /\ UNCHANGED <<build, codec_vars, docker_vars, payload, auto_result,
                 backends, works, keywords, nav_url, elems>>

\* browser.wait_for_initial_tab()?
WaitForInitialTab ==
  /\ pc = "connected"
  /\ \/ /\ pc' = "tab"
        /\ UNCHANGED search_result
     \/ /\ search_result' = Err("no initial tab")
        /\ pc' = "done"
  /\ UNCHANGED <<build, codec_vars, docker_vars, payload, auto_result,
                 backends, works, keywords, conn_attempts, session, nav_url,
                 elems>>

\* tab.navigate_to(&url)?
NavigateTo ==
  /\ pc = "tab"
  /\ nav_url' = Some(results_url(keywords))
  /\ \/ /\ pc' = "navigated"
        /\ UNCHANGED search_result
     \/ /\ search_result' = Err("navigation failed")
        /\ pc' = "done"
  /\ UNCHANGED <<build, codec_vars, docker_vars, payload, auto_result,
                 backends, works, keywords, conn_attempts, session, elems>>

\* tab.wait_for_elements("a#video-title")?, the filter_map, Ok(velems)
WaitForElements ==
  /\ pc = "navigated"
  /\ \/ /\ \E es \in Pages :
             /\ elems' = es
             /\ search_result' = Ok(filter_map_links(es))
     \/ /\ search_result' = Err("no element found")
        /\ UNCHANGED elems
  /\ pc' = "done"
  /\ UNCHANGED <<build, codec_vars, docker_vars, payload, auto_result,
                 backends, works, keywords, conn_attempts, session, nav_url>>

NextCodec ==
  \/ IsValidUrl
  \/ New
  \/ IntoComponents
  \/ FormatParsed
  \/ From
  \/ ParseBuilt
  \/ Auto
  \/ BrowserProxy

NextDocker ==
  \/ DockerRun
  \/ DockerLogs
  \/ GetPorts
  \/ ToProxyConfig
  \/ Probe
  \/ ProbeEnd

NextSearch ==
  \/ NewScraper
  \/ AttemptProxy
  \/ AttemptDefault
  \/ WaitForInitialTab
  \/ NavigateTo
  \/ WaitForElements

Next ==
  \/ NextCodec
  \/ NextDocker
  \/ NextSearch

\* every call of the library
Spec == Init /\ [][Next]_vars

\* the calls that build a ProxyConfig or a BrowserType
SpecCodec == Init /\ [][NextCodec]_vars

\* DockerConfig::browser
SpecDocker == Init /\ [][NextDocker]_vars

\* YoutubeScraper::new and search
SpecSearch == Init /\ [][NextSearch]_vars
(***************************************************************************)
(* Endpoint codec: validation and round trips                              *)
(***************************************************************************)
\* the shape ws://<host>[:<port>]/devtools/browser/<token> over the whole of
\* s: host s[6..j-1] free of ':' and '/', port digits s[j+1..k-1], token
\* s[k+18..] of one or more characters
WholeShape(s) ==
  /\ StartsWithAt(s, 1, WS_PREFIX)
  /\ \E j \in (Len(WS_PREFIX) + 1)..(Len(s) + 1) :
       \E k \in j..(Len(s) + 1) :
         /\ \A m \in (Len(WS_PREFIX) + 1)..(j - 1) : s[m] \notin {":", "/"}
         /\ \/ k = j
            \/ /\ s[j] = ":"
               /\ \A m \in (j + 1)..(k - 1) : IsDigit(s[m])
         /\ StartsWithAt(s, k, DEVTOOLS_PATH)
         /\ k + Len(DEVTOOLS_PATH) <= Len(s)

\* C1: is_valid_url returns true exactly for the strings that have the shape
\* ws://<host>[:<port>]/devtools/browser/<token> as a whole; in particular
\* a string with characters before "ws://" is rejected.
C1_ValidateIffWholeShape ==
  pc = "validated" => (valid <=> WholeShape(url))

\* C2: for every URL u accepted by is_valid_url, new(u), into_components and
\* from(components) complete and give back a ProxyConfig holding u.
C2_FormatParseIsIdentity ==
  (endpoint = Unset /\ is_valid_url(url)) =>
    /\ pc # "panicked"
    /\ pc = "parsed" => comps.tag = "Ok"
    /\ pc = "formatted" => proxy = Ok(url)

\* C3: for every well-formed endpoint e, from(e) and into_components
\* complete and give back components equal to e.
C3_ParseFormatIsIdentity ==
  endpoint # Unset =>
    /\ pc # "panicked"
    /\ pc = "reparsed" => comps = endpoint

\* the decomposition the specification gives for a string matching at i
ExpectedComponents(s) ==
  LET i == SetMin({n \in 1..Len(s) : regex_match_at(s, n)})
      j == host_end(s, i + Len(WS_PREFIX))
      k == IF s[j] = ":" THEN digits_end(s, j + 1) ELSE j
  IN  [ip |-> SubSeq(s, i + Len(WS_PREFIX), j - 1),
       hasPort |-> s[j] = ":",
       token |-> SubSeq(s, k + Len(DEVTOOLS_PATH), Len(s))]

\* C4: new(u).and_then(into_components) never panics; it is an error when
\* is_valid_url(u) is false and otherwise Ok with the host, the token and
\* a port that is Some exactly when a ":<port>" segment is present.
C4_ParseTotalAndAgrees ==
  (endpoint = Unset /\ pc \in {"parsed", "panicked"}) =>
    /\ pc # "panicked"
    /\ ~is_valid_url(url) => comps.tag = "Err"
    /\ is_valid_url(url) =>
         /\ comps.tag = "Ok"
         /\ comps.val.ip = ExpectedComponents(url).ip
         /\ comps.val.token = ExpectedComponents(url).token
         /\ (comps.val.port # None) <=> ExpectedComponents(url).hasPort

(***************************************************************************)
(* Container provisioner: port probing                                     *)
(***************************************************************************)
\* the port that the URL of a connection attempt names
AttemptPort(a) == into_components(a.url, build).val.port

\* C5: the ports are probed in the order get_ports returned them, and the
\* probing stops at the first connection that succeeds: a successful attempt
\* is the last attempt, and it is the connection that browser returns.
C5_ProbingStopsAtFirstSuccess ==
  /\ Len(attempts) <= Len(ports)
  /\ \A i \in 1..Len(attempts) :
       /\ AttemptPort(attempts[i]) = Some(ports[i])
       /\ attempts[i].ok => i = Len(attempts)
  /\ (pc = "done" /\ result.tag = "Ok") =>
       /\ attempts # <<>>
       /\ attempts[Len(attempts)].ok
       /\ result.val.browser = attempts[Len(attempts)].url

\* the first of two ports connected and the second was never tried
C5_Witness ==
  /\ pc = "done"
  /\ result.tag = "Ok"
  /\ Len(ports) = 2
  /\ Len(attempts) = 1
  /\ attempts[1].ok

\* C6: when the URL of the log is valid and the connection fails on every
\* port, browser returns the "None of the port worked" error holding one
\* failure per entry of ports, in order, each the error of the attempt on
\* that port.
C6_ExhaustionAggregatesAll ==
  (pc = "done" /\ conf_comps.tag = "Ok" /\ found = None) =>
    /\ result.tag = "Err"
    /\ result.val.msg = "None of the port worked"
    /\ Len(attempts) = Len(ports)
    /\ Len(result.val.failures) = Len(ports)
    /\ \A i \in 1..Len(ports) :
         /\ ~attempts[i].ok
         /\ AttemptPort(attempts[i]) = Some(ports[i])
         /\ result.val.failures[i] = connect_error(attempts[i].url)

\* two distinct ports were published and both refused the connection
C6_Witness ==
  /\ pc = "done"
  /\ result.tag = "Err"
  /\ Len(ports) = 2
  /\ ports[1] # ports[2]
  /\ Len(result.val.failures) = 2

\* C7: DockerConfig::browser never panics: whatever the log and the port
\* query hold, and when a docker command cannot be started, it returns.
C7_BrowserNeverPanics ==
  result.tag # "Panic"
(***************************************************************************)
(* Search provider                                                         *)
(***************************************************************************)
\* C8: a provider built with backends <<A, B>>, where connecting through A
\* fails and connecting through B succeeds, searches through B's connection.
C8_BackendPriority ==
  (/\ pc \in {"connected", "tab", "navigated", "done"}
   /\ Len(backends) = 2
   /\ backends[1] \notin works
   /\ backends[2] \in works) =>
    session = Ok(backends[2])

\* where the i-th keyword starts in the keywords joined by one-character
\* separators
RECURSIVE KeywordStart(_, _)
KeywordStart(ks, i) ==
  IF i = 1 THEN 1 ELSE KeywordStart(ks, i - 1) + Len(ks[i - 1]) + 1

\* q is the keywords ks in order with exactly a '+' between neighbours
IsPlusJoined(q, ks) ==
  IF ks = <<>> THEN q = <<>>
  ELSE
    /\ Len(q) = KeywordStart(ks, Len(ks)) + Len(ks[Len(ks)]) - 1
    /\ \A i \in 1..Len(ks) :
         SubSeq(q, KeywordStart(ks, i), KeywordStart(ks, i) + Len(ks[i]) - 1) = ks[i]
    /\ \A i \in 1..(Len(ks) - 1) : q[KeywordStart(ks, i) + Len(ks[i])] = "+"

\* the origin in front of the href of each element that has one, in order
ExpectedLinks(es) ==
  LET linked == SelectSeq(es, LAMBDA e : e.attributes = "Some" /\ e.href # None)
  IN  [i \in 1..Len(linked) |-> YOUTUBE \o linked[i].href[1]]

\* C9: search navigates to the results URL whose search_query is the
\* keywords joined by '+', for the empty keyword list too, and returns Err
\* or Ok with the origin-prefixed href of every title link that has one, in
\* document order; it does not panic.
C9_SearchResult ==
  /\ nav_url # None =>
       /\ take(nav_url[1], Len(RESULTS_URL)) = RESULTS_URL
       /\ IsPlusJoined(skip(nav_url[1], Len(RESULTS_URL)), keywords)
  /\ search_result.tag \in {"Unset", "Ok", "Err"}
  /\ search_result.tag # "Unset" => pc = "done"
  /\ search_result.tag = "Ok" =>
       /\ nav_url # None
       /\ search_result.val = ExpectedLinks(elems)

\* an empty query on a page of three elements, one of them a link
C9_Witness ==
  /\ pc = "done"
  /\ keywords = <<>>
  /\ search_result.tag = "Ok"
  /\ Len(elems) = 3
  /\ Len(search_result.val) = 1

\* C10: BrowserType::auto returns Some(browser type) when the payload
\* deserializes as a BrowserType and None, without panicking, when not.
C10_AutoSomeOrNone ==
  auto_result.tag # "Unset" =>
    /\ auto_result.tag = "Ok"
    /\ from_value(payload).tag = "Ok" <=> auto_result.val # None

\* a line holding "ws://" with "/devtools/browser/" somewhere after it
Qualifies(line) ==
  \E i \in 1..Len(line) :
    /\ StartsWithAt(line, i, WS_PREFIX)
    /\ \E j \in (i + Len(WS_PREFIX))..Len(line) :
         StartsWithAt(line, j, DEVTOOLS_PATH)

AllUtf8(docker_logs) ==
  \A i \in 1..Len(docker_logs) : docker_logs[i].tag = "Ok"

QualifyingLines(docker_logs) ==
  {i \in 1..Len(docker_logs) :
     docker_logs[i].tag = "Ok" /\ Qualifies(docker_logs[i].val)}

\* docker logs returned and debug_ws_from_log ran
LogWasRead == ws_url.tag # "Unset"

\* C11: on a log of UTF-8 lines the scan selects the first line that has
\* "ws://" followed later by "/devtools/browser/", the candidate being that
\* line from its first "ws://" on; when no line qualifies no connection is
\* attempted and a browser() that returns an error other than the failed
\* start of the port query returns the "no line matching" error.
C11_LogScanSelectsFirstQualifying ==
  (LogWasRead /\ AllUtf8(log)) =>
    IF QualifyingLines(log) # {}
      THEN LET line == log[SetMin(QualifyingLines(log))].val
           IN  ws_url = Ok(skip(line, find(line, WS_PREFIX)[1]))
      ELSE /\ ws_url = Err("docker logs has no line matching")
           /\ attempts = <<>>
           /\ (pc = "done" /\ result.val.msg # "docker port could not be started"
                 => result = BrowserErr("docker logs has no line matching", <<>>))


\* the endpoint of host, port and token
EndpointOf(host, port, token) ==
  WS_PREFIX \o host \o <<":">> \o to_decimal(port) \o DEVTOOLS_PATH \o token

\* the ports that the lines of the port query name
QueriedPorts ==
  {port_of_line(port_out[k].val)[1] :
     k \in {n \in 1..Len(port_out) : port_of_line(port_out[n].val) # None}}

\* C12: every connection attempt of DockerConfig::browser targets host
\* "localhost", a port returned by the port query and the token of the URL
\* found in the log (the text after its "/devtools/browser/"); the host and
\* the port of the log URL are not used.
C12_AttemptsTargetLocalhost ==
  \A i \in 1..Len(attempts) :
    /\ ports[i] \in QueriedPorts
    /\ attempts[i].url =
         EndpointOf(LOCALHOST, ports[i], ExpectedComponents(ws_url.val).token)

C14_EveryProxyConfigIsValid ==
  /\ proxy.tag = "Ok" => is_valid_url(proxy.val)
  /\ (/\ auto_result.tag = "Ok"
      /\ auto_result.val # None
      /\ auto_result.val[1].type = "Proxy") =>
       is_valid_url(auto_result.val[1].debug_ws_url)

(***************************************************************************)
(* Container provisioner: the container identifier                         *)
(***************************************************************************)
\* C15: when docker run prints the identifier followed by a line
\* terminator, the argument of docker logs and of docker port is exactly
\* the identifier, without the terminator or any other character.
C15_ContainerIdIsBare ==
  \A i \in 1..Len(cmds) :
    cmds[i].cmd \in {"logs", "port"} => cmds[i].arg = CONTAINER_ID

====
